---------------------------- MODULE Spec2Model ----------------------------
(***************************************************************************)
(* Model of the faucet chat bot of src/src/bot/index.ts: the Room.timeline *)
(* handler, the continuations of its two backend calls, and sendMessage.   *)
(*                                                                         *)
(* A JavaScript string is a sequence of fragments ("atoms"); the separators*)
(* the code splits on (" ", ":", ",", the quote) and the whitespace it     *)
(* trims are atoms of their own, so that split, trim, replace, endsWith and*)
(* startsWith are computed on the sequence as the code computes them on the*)
(* characters.  A JavaScript number is written as it prints ("0.5", "NaN").*)
(*                                                                         *)
(* The handler keeps no state between events.  The state of the model is   *)
(* the set of backend calls whose promise is not settled yet (each with the*)
(* variables its continuation closes over), and, for the last step taken,  *)
(* what it processed and what it emitted: backend requests issued, chat    *)
(* messages sent, log lines written, an exception left uncaught.           *)
(***************************************************************************)
EXTENDS Naturals, Sequences, FiniteSets, TLC

\* Number of timeline events delivered in one run.
MaxEvents == 2

(***************************************************************************)
(* Strings                                                                 *)
(***************************************************************************)

\* JavaScript's undefined (an absent sender, body, token or field); null is
\* not told apart from it, the code never does.
Undefined == <<"<undefined>">>

\* The characters String.prototype.trim removes.
Whitespace == {" ", "\t"}

\* JavaScript truthiness of a string or undefined.
Truthy(s) == s # Undefined /\ s # <<>>

RECURSIVE SplitFrom(_, _, _, _)
SplitFrom(s, sep, i, cur) ==
    IF i > Len(s) THEN <<cur>>
    ELSE IF s[i] = sep THEN <<cur>> \o SplitFrom(s, sep, i + 1, <<>>)
    ELSE SplitFrom(s, sep, i + 1, Append(cur, s[i]))

\* s.split(sep): always at least one piece, empty pieces kept.
Split(s, sep) == SplitFrom(s, sep, 1, <<>>)

\* Array destructuring / indexing past the end gives undefined.
Nth(arr, i) == IF i <= Len(arr) THEN arr[i] ELSE Undefined

RECURSIVE TrimStart(_)
TrimStart(s) ==
    IF s # <<>> /\ Head(s) \in Whitespace THEN TrimStart(Tail(s)) ELSE s

RECURSIVE TrimEnd(_)
TrimEnd(s) ==
    IF s # <<>> /\ s[Len(s)] \in Whitespace
    THEN TrimEnd(SubSeq(s, 1, Len(s) - 1)) ELSE s

\* s.trim()
Trim(s) == TrimEnd(TrimStart(s))

RECURSIVE ReplaceFirst(_, _)
\* s.replace(c, ''): a string pattern replaces the first occurrence only.
ReplaceFirst(s, c) ==
    IF s = <<>> THEN <<>>
    ELSE IF Head(s) = c THEN Tail(s)
    ELSE <<Head(s)>> \o ReplaceFirst(Tail(s), c)

\* s.endsWith(suffix), the suffix being one fragment.
EndsWith(s, suffix) == s # <<>> /\ s[Len(s)] = suffix

\* The fragments that begin with the character '!'.
BangAtoms == {"!", "!balance", "!drip", "!help"}

\* Variant: the '!' is looked for anywhere in the token (includes for
\* startsWith).
ContainsBang(s) == \E i \in 1..Len(s) : s[i] \in BangAtoms

\* s.startsWith('!')
StartsWithBang(s) == s # <<>> /\ Head(s) \in BangAtoms

\* arr.includes(x)
Includes(arr, x) == \E i \in 1..Len(arr) : arr[i] = x

\* Number(s) for a truthy token: surrounding whitespace is ignored, the empty
\* string is 0, a numeral is its value, anything else NaN.
NumberOf(s) ==
    LET t == Trim(s) IN
    IF t = <<>> THEN "0"
    ELSE IF Len(t) = 1 /\ t[1] \in {"2", "0.5", "2000"} THEN t[1]
    ELSE "NaN"

(***************************************************************************)
(* Configuration (read once at start, never changed)                       *)
(***************************************************************************)

\* MATRIX_BOT_USER_ID
botUserId == <<"@faucet", ":matrix.org">>

\* DRIP_AMOUNT, at its default
defaultDripAmount == "0.5"

\* NETWORK_DECIMALS, at its default
decimals == 12

\* NETWORK_UNIT, at its default
unit == "UNIT"

\* The value of FAUCET_IGNORE_LIST: @eve:matrix.org,"@carol:matrix.org"
FAUCET_IGNORE_LIST ==
    <<"@eve", ":matrix.org", ",", "\"", "@carol", ":matrix.org", "\"">>

RECURSIVE MapReplaceQuote(_)
MapReplaceQuote(items) ==
    IF items = <<>> THEN <<>>
    ELSE <<ReplaceFirst(Head(items), "\"")>> \o MapReplaceQuote(Tail(items))

\* env.split(',').map((item) => item.replace('"', ''))
ParseIgnoreList(env) == MapReplaceQuote(Split(env, ","))

ignoreList == ParseIgnoreList(FAUCET_IGNORE_LIST)

\* The suffix that lets a sender override the drip amount.
TrustedSuffix == ":matrix.parity.io"

(***************************************************************************)
(* The environment: events the chat server delivers, answers of the backend*)
(***************************************************************************)

Types == {"m.room.message", "m.room.member"}

Rooms == {"!room1", "!room2"}

Senders ==
    { Undefined,
      botUserId,
      <<"@eve", ":matrix.org">>,
      <<"@mallory", ":matrix.parity.io", ".example.org">>,
      <<"@bob", ":matrix.parity.io">> }

Bodies ==
    { Undefined,
      <<"hello", "!">>,
      <<" ", "!balance">>,
      <<"!balance">>,
      <<"!help">>,
      <<"!", "hello">>,
      <<"!drip">>,
      <<"!drip", " ">>,
      <<"!drip", " ", " ", "5Valid">>,
      <<"!drip", " ", "\t">>,
      <<"!drip", " ", "5Bad">>,
      <<"!drip", " ", "\t", "5Valid">>,
      <<"!drip", " ", "5Valid">>,
      <<"!drip", " ", "5Valid", " ", "2">>,
      <<"!drip", " ", "5Valid", " ", "hello">>,
      <<"!drip", " ", "5Valid", ":", "2000", " ", "0.5">> }

\* The events the chat server delivers: a message of any sender, room and
\* body, or an event of another type.
Events ==
    [type : {"m.room.message"}, sender : Senders, roomId : Rooms, body : Bodies]
    \cup [type : Types \ {"m.room.message"}, sender : Senders, roomId : Rooms,
          body : {Undefined, <<"!help">>, <<"!drip", " ", "5Valid">>}]

\* The addresses decodeAddress accepts; it throws on every other string.
ValidAddresses == { <<"5Valid">> }

NoResponse ==
    [kind |-> "none", hasData |-> FALSE, balance |-> Undefined,
     hash |-> Undefined, error |-> Undefined, message |-> Undefined]

\* What GET /balance can settle with: a body {balance} (BalanceResponse), or
\* a transport error (network, timeout, non-2xx).
BalanceResponses ==
    { [NoResponse EXCEPT !.kind = "fulfilled", !.hasData = TRUE, !.balance = b]
        : b \in {<<"5000000000000">>, <<"0">>} }
    \cup { [NoResponse EXCEPT !.kind = "rejected",
                              !.message = <<"timeout of 10000ms exceeded">>] }

\* What POST /bot-endpoint can settle with: a body {hash?, error?}
\* (DripResponse), or a transport error with or without a message.
DripResponses ==
    { [NoResponse EXCEPT !.kind = "fulfilled", !.hasData = TRUE,
                         !.hash = h, !.error = e]
        : h \in {<<"0xabc">>, <<>>, Undefined},
          e \in {Undefined, <<"!help">>} }
    \cup { [NoResponse EXCEPT !.kind = "rejected", !.message = m]
        : m \in {<<"timeout of 10000ms exceeded">>, <<>>} }

(***************************************************************************)
(* Texts sent to the chat                                                  *)
(***************************************************************************)

HelpText ==
    <<"The following commands are supported: !balance, !drip <Address>[:ParachainId], !help">>

\* The text printHelpMessage(roomId, message = '') sends.
HelpMessage(message) ==
    (IF Truthy(message) THEN message \o <<" - ">> ELSE <<>>) \o HelpText

IncompatibleAddressText(sender) ==
    sender \o <<" provided an incompatible address.">>

\* `The faucet has ${Number(balance) / 10 ** decimals} ${unit}s remaining.`
\* The quotient is kept as written (numerator, exponent), not evaluated.
BalanceText(balance) ==
    <<"The faucet has ">> \o balance \o <<"e-", ToString(decimals)>>
    \o <<" ", unit, "s remaining.">>

BalanceErrorText == <<"An error occured, please check the server logs.">>

DripFallbackText ==
    <<"An unexpected error occured, please check the server logs">>

\* `Sent ${sender} ${dripAmount} ${unit}s. Extrinsic hash: ${res.data.hash}`
ConfirmationText(sender, dripAmount, hash) ==
    <<"Sent ">> \o sender \o <<" ", dripAmount, " ", unit, "s. Extrinsic hash: ">>
    \o hash

(***************************************************************************)
(* The Room.timeline handler, as a function of the event                   *)
(***************************************************************************)

\* arg0.trim().split(':')
Arg0Processed(arg0) == Split(Trim(arg0), ":")

\* arg0_processed[1] ? arg0_processed[1] : ''
ParachainIdOf(arg0_processed) ==
    IF Truthy(Nth(arg0_processed, 2)) THEN arg0_processed[2] ELSE <<>>

\* Variant: the address is not validated.
DecodeAddressSkipped(address) == TRUE

\* decodeAddress(address) returns without throwing.
DecodeAddressOk(address) == address \in ValidAddresses

\* Variant: the trusted domain is looked for anywhere in the sender
\* (includes for endsWith).
DripAmountIfContains(sender, arg1) ==
    IF Includes(sender, TrustedSuffix) /\ Truthy(arg1)
    THEN NumberOf(arg1) ELSE defaultDripAmount

\* Parity users can override the drip amount by using a 3rd argument.
DripAmountOf(sender, arg1) ==
    IF EndsWith(sender, TrustedSuffix) /\ Truthy(arg1)
    THEN NumberOf(arg1) ELSE defaultDripAmount

\* Variant: the bot's own messages are not dropped.
NotForUsWithoutSelfCheck(event) ==
    \/ event.type # "m.room.message"
    \/ ~Truthy(event.sender)

\* The event is dropped before the ignore list is looked at.
NotForUs(event) ==
    \/ event.type # "m.room.message"
    \/ ~Truthy(event.sender)
    \/ event.sender = botUserId

\* Variant: the ignore list is not consulted.
IgnoredNever(sender) == FALSE

\* ignoreList.includes(sender)
Ignored(sender) == Includes(ignoreList, sender)

LogLine(level, what) == [level |-> level, what |-> what]

Msg(roomId, body) == [roomId |-> roomId, body |-> body]

\* A handler run that does nothing; dripAmount is the value of the handler's
\* local of that name when it returns.
Quiet ==
    [requests |-> <<>>, msgs |-> <<>>, logs |-> <<>>, thrown |-> FALSE,
     dripAmount |-> defaultDripAmount]

BalanceRequest == [method |-> "GET", path |-> "/balance", body |-> <<>>]

DripRequest(address, dripAmount, parachain_id, sender) ==
    [method |-> "POST", path |-> "/bot-endpoint",
     body |-> << [address |-> address, amount |-> dripAmount,
                  parachain_id |-> parachain_id, sender |-> sender] >>]

\* Variant: only an absent token counts as missing, an empty one does not.
AddressUndefined(arg0) == arg0 = Undefined

\* if (!arg0)
AddressMissing(arg0) == ~Truthy(arg0)

\* The !drip branch, the sender being accepted.
OnDrip(sender, roomId, arg0, arg1) ==
    LET arg0_processed == Arg0Processed(arg0)
        address == Nth(arg0_processed, 1)
        parachain_id == ParachainIdOf(arg0_processed)
        dripAmount == DripAmountOf(sender, arg1)
        processing == LogLine("debug", "Processing request")
        processed == LogLine("debug", "Processed receiver")
    IN  IF AddressMissing(arg0)
        THEN [Quiet EXCEPT
                !.logs = <<processing, LogLine("warn", "Address not provided")>>]
        ELSE IF ~DecodeAddressOk(address)
        THEN [Quiet EXCEPT
                !.logs = <<processing, processed>>,
                !.msgs = <<Msg(roomId, IncompatibleAddressText(sender))>>]
        ELSE [Quiet EXCEPT
                !.logs = <<processing, processed>>,
                !.dripAmount = dripAmount,
                !.requests = <<DripRequest(address, dripAmount,
                                           parachain_id, sender)>>]

\* The branch taken on the first token, the sender being accepted and the
\* body a string: const [action, arg0, arg1] = body.split(' ').
OnCommand(sender, roomId, body) ==
    LET parts == Split(body, " ")
        action == Nth(parts, 1)
        arg0 == Nth(parts, 2)
        arg1 == Nth(parts, 3)
        processing == LogLine("debug", "Processing request")
    IN  IF action = <<"!balance">>
        THEN [Quiet EXCEPT !.logs = <<processing>>,
                           !.requests = <<BalanceRequest>>]
        ELSE IF action = <<"!drip">> THEN OnDrip(sender, roomId, arg0, arg1)
        ELSE IF action = <<"!help">>
        THEN [Quiet EXCEPT !.logs = <<processing>>,
                           !.msgs = <<Msg(roomId, HelpMessage(<<>>))>>]
        ELSE IF StartsWithBang(action)
        THEN [Quiet EXCEPT
                !.logs = <<processing>>,
                !.msgs = <<Msg(roomId, HelpMessage(<<"Unknown command">>))>>]
        ELSE [Quiet EXCEPT !.logs = <<processing>>]

\* Everything the handler does before it returns: requests issued, messages
\* sent, lines logged, and whether it ended by an exception (body.split on
\* an absent body).
OnTimeline(event) ==
    IF NotForUs(event) THEN Quiet
    ELSE IF Ignored(event.sender)
    THEN [Quiet EXCEPT !.logs = <<LogLine("warn", "Ignored request")>>]
    ELSE IF event.body = Undefined
    THEN [Quiet EXCEPT !.logs = <<LogLine("debug", "Processing request")>>,
                       !.thrown = TRUE]
    ELSE OnCommand(event.sender, event.roomId, event.body)

(***************************************************************************)
(* The continuations of the two backend calls                              *)
(***************************************************************************)

\* isDripSuccessResponse(res.data): the response carries a non-empty hash.
IsDripSuccessResponse(resp) == Truthy(resp.hash)

\* The variables a continuation closes over, read when it runs.
ClosureRoomId(call) == call.roomId
ClosureSender(call) == call.sender
\* Variant: the continuation reports the configured amount, not the amount
\* of its own request.
ConfiguredDripAmount(call) == defaultDripAmount

ClosureDripAmount(call) == call.dripAmount

\* Variant: success is decided by the absence of an error text.
DripThenTextByError(call, resp) ==
    IF ~Truthy(resp.error)
    THEN ConfirmationText(call.sender, call.dripAmount,
                          IF Truthy(resp.hash) THEN resp.hash ELSE <<>>)
    ELSE resp.error

\* The message the .then of the !drip call builds.
DripThenText(call, resp) ==
    IF IsDripSuccessResponse(resp)
    THEN ConfirmationText(ClosureSender(call), ClosureDripAmount(call), resp.hash)
    ELSE IF Truthy(resp.error) THEN resp.error ELSE DripFallbackText

\* Variant: the .catch of the !drip call sends the generic text only.
DripCatchGeneric(resp) == DripFallbackText

\* The message the .catch of the !drip call sends.
DripCatchText(resp) ==
    IF Truthy(resp.message) THEN resp.message ELSE DripFallbackText

\* The message the .catch of the !balance call sends.
BalanceCatchText(resp) == BalanceErrorText

\* Everything the continuation of `call` does when its promise settles
\* with `resp`.
OnSettle(call, resp) ==
    LET roomId == ClosureRoomId(call) IN
    IF call.request.path = "/balance"
    THEN IF resp.kind = "fulfilled"
         THEN [Quiet EXCEPT !.msgs = <<Msg(roomId, BalanceText(resp.balance))>>]
         ELSE [Quiet EXCEPT
                 !.msgs = <<Msg(roomId, BalanceCatchText(resp))>>,
                 !.logs = <<LogLine("error", "checking the balance")>>]
    ELSE IF resp.kind = "fulfilled"
         THEN [Quiet EXCEPT !.msgs = <<Msg(roomId, DripThenText(call, resp))>>]
         ELSE [Quiet EXCEPT
                 !.msgs = <<Msg(roomId, DripCatchText(resp))>>,
                 !.logs = <<LogLine("error", "dripping")>>]

(***************************************************************************)
(* sendMessage                                                             *)
(***************************************************************************)

\* Variant: every message is sent a second time (a retry).
SendMessageTwice(msgs) ==
    [i \in 1..(2 * Len(msgs)) |->
        [roomId |-> msgs[((i - 1) % Len(msgs)) + 1].roomId,
         body |-> msgs[((i - 1) % Len(msgs)) + 1].body, failed |-> FALSE]]

\* One bot.sendEvent per message; whether the chat server takes it is known
\* later.
SendMessage(msgs) ==
    [i \in 1..Len(msgs) |->
        [roomId |-> msgs[i].roomId, body |-> msgs[i].body, failed |-> FALSE]]

(***************************************************************************)
(* State                                                                   *)
(***************************************************************************)

VARIABLES
    nEvents,    \* timeline events delivered so far
    pending,    \* backend calls not settled yet, each with its closure
    step,       \* what the last step processed: an event, or a call's answer
    requests,   \* backend requests the last step issued
    sent,       \* chat messages the last step sent
    logged,     \* log lines the last step wrote
    thrown      \* the last step ended by an uncaught exception

vars == <<nEvents, pending, step, requests, sent, logged, thrown>>

NoEvent == [type |-> "", sender |-> Undefined, roomId |-> "", body |-> Undefined]

NoCall ==
    [ev |-> 0, request |-> BalanceRequest, roomId |-> "", sender |-> Undefined,
     dripAmount |-> defaultDripAmount]

Init ==
    /\ nEvents = 0
    /\ pending = {}
    /\ step = [kind |-> "start", event |-> NoEvent, call |-> NoCall,
               response |-> NoResponse]
    /\ requests = <<>>
    /\ sent = <<>>
    /\ logged = <<>>
    /\ thrown = FALSE

\* One run of the Room.timeline handler on `event`, delivered as `kind`.
Deliver(kind, event) ==
    LET out == OnTimeline(event)
        id == nEvents + 1
    IN  /\ nEvents' = id
        /\ step' = [kind |-> kind, event |-> event, call |-> NoCall,
                    response |-> NoResponse]
        /\ pending' = pending \cup
              { [ev |-> id, request |-> out.requests[i], roomId |-> event.roomId,
                 sender |-> event.sender, dripAmount |-> out.dripAmount]
                : i \in 1..Len(out.requests) }
        /\ requests' = out.requests
        /\ sent' = SendMessage(out.msgs)
        /\ logged' = out.logs
        /\ thrown' = out.thrown

\* The chat server delivers an event of any type, sender, room and body.
Timeline ==
    /\ nEvents < MaxEvents
    /\ \E event \in Events : Deliver("timeline", event)

\* The chat server delivers one of the bot's own messages back to it.
Echo ==
    /\ nEvents < MaxEvents
    /\ \E i \in 1..Len(sent) :
        /\ ~sent[i].failed
        /\ Deliver("echo",
                   [type |-> "m.room.message", sender |-> botUserId,
                    roomId |-> sent[i].roomId, body |-> sent[i].body])

\* The promise of a backend call settles and its continuation runs.
Settle ==
    \E call \in pending :
        \E resp \in (IF call.request.path = "/balance"
                     THEN BalanceResponses ELSE DripResponses) :
            LET out == OnSettle(call, resp) IN
            /\ pending' = pending \ {call}
            /\ step' = [kind |-> "settle", event |-> NoEvent, call |-> call,
                        response |-> resp]
            /\ requests' = out.requests
            /\ sent' = SendMessage(out.msgs)
            /\ logged' = out.logs
            /\ thrown' = out.thrown
            /\ UNCHANGED nEvents

\* bot.sendEvent is rejected: the .catch of sendMessage logs the error and
\* nothing else happens.
SendFailed ==
    \E i \in 1..Len(sent) :
        /\ ~sent[i].failed
        /\ sent' = [sent EXCEPT ![i].failed = TRUE]
        /\ logged' = Append(logged, LogLine("error", "sendEvent"))
        /\ UNCHANGED <<nEvents, pending, step, requests, thrown>>

Next == Timeline \/ Echo \/ Settle \/ SendFailed

Spec == Init /\ [][Next]_vars

(***************************************************************************)
(* Vocabulary of the properties                                            *)
(***************************************************************************)

\* The last step was a run of the Room.timeline handler.
Dispatched == step.kind \in {"timeline", "echo"}

\* The last step was the continuation of a backend call.
Settled == step.kind = "settle"

\* The event of the last step passed the type, sender and ignore-list filters.
Accepted ==
    /\ step.event.type = "m.room.message"
    /\ step.event.sender \notin {Undefined, <<>>, botUserId}
    /\ \A i \in 1..Len(ignoreList) : ignoreList[i] # step.event.sender

\* The space-separated tokens of the last event's body.
Tokens == Split(step.event.body, " ")

\* The last event is a !drip command.
IsDripCommand == step.event.body # Undefined /\ Tokens[1] = <<"!drip">>

\* The last step issued no backend call, and none is in flight for its event.
NoBackendCall == requests = <<>> /\ \A c \in pending : c.ev # nEvents

\* The text is a drip confirmation.
IsConfirmation(text) == text # <<>> /\ text[1] = "Sent "

\* The response carries a non-empty hash.
HasHash(resp) == resp.hash # Undefined /\ resp.hash # <<>>

Mallory == <<"@mallory", ":matrix.parity.io", ".example.org">>
Bob == <<"@bob", ":matrix.parity.io">>
Eve == <<"@eve", ":matrix.org">>

(***************************************************************************)
(* C1                                                                      *)
(***************************************************************************)

\* C1: a message event whose sender is in the ignore list, whatever its body
\* and whatever happened before, issues no backend call and sends no chat
\* message; all it does is log one warning.
C1_IgnoredSenderIsSilent ==
    ( /\ Dispatched
      /\ step.event.type = "m.room.message"
      /\ \E i \in 1..Len(ignoreList) : ignoreList[i] = step.event.sender )
    => /\ NoBackendCall
       /\ sent = <<>>
       /\ ~thrown
       /\ logged = <<[level |-> "warn", what |-> "Ignored request"]>>

\* An ignored sender sent a well-formed !drip as the second event of the run.
C1_Witness ==
    /\ Dispatched
    /\ nEvents = 2
    /\ step.event.type = "m.room.message"
    /\ step.event.sender = Eve
    /\ step.event.body = <<"!drip", " ", "5Valid">>
    /\ logged # <<>>

(***************************************************************************)
(* C2                                                                      *)
(***************************************************************************)

\* C2: a message event whose body does not start with '!' (an absent body
\* included) sends no chat message and issues no backend call, for any sender.
C2_NoPrefixNoAction ==
    ( /\ Dispatched
      /\ step.event.type = "m.room.message"
      /\ \/ step.event.body = Undefined
         \/ step.event.body = <<>>
         \/ Head(step.event.body) \notin BangAtoms )
    => sent = <<>> /\ NoBackendCall

\* An accepted sender wrote " !balance" (a leading space) and was processed.
C2_Witness ==
    /\ Dispatched
    /\ Accepted
    /\ step.event.sender = Bob
    /\ step.event.body = <<" ", "!balance">>
    /\ logged # <<>>
    /\ sent = <<>>

(***************************************************************************)
(* C3                                                                      *)
(***************************************************************************)

\* The reply C3 names, sent once to the room of the event, and no request.
IncompatibleReplyOnly ==
    /\ NoBackendCall
    /\ Len(sent) = 1
    /\ sent[1].roomId = step.event.roomId
    /\ sent[1].body = step.event.sender \o <<" provided an incompatible address.">>

\* C3 as stated: for a !drip of an accepted sender whose address part, the
\* text before the first ':' of the second token, fails address decoding, the
\* bot sends exactly '<sender> provided an incompatible address.' to the
\* room and issues no POST /bot-endpoint.
C3_AsStated ==
    ( /\ Dispatched /\ Accepted /\ IsDripCommand
      /\ Len(Tokens) >= 2 /\ Tokens[2] # <<>>
      /\ Split(Tokens[2], ":")[1] \notin ValidAddresses )
    => IncompatibleReplyOnly

\* C3 amended: the same, the address part being the text before the first
\* ':' of the second token once its surrounding whitespace is trimmed, and
\* the second token being non-empty.
C3_TrimmedAddressRejected ==
    ( /\ Dispatched /\ Accepted /\ IsDripCommand
      /\ Len(Tokens) >= 2 /\ Tokens[2] # <<>>
      /\ Split(Trim(Tokens[2]), ":")[1] \notin ValidAddresses )
    => IncompatibleReplyOnly

\* An accepted sender asked for a drip to an address that does not decode.
C3_Witness ==
    /\ Dispatched
    /\ Accepted
    /\ step.event.body = <<"!drip", " ", "5Bad">>
    /\ Len(sent) = 1

(***************************************************************************)
(* C4                                                                      *)
(***************************************************************************)

\* C4: the amount of a POST /bot-endpoint differs from the configured amount
\* only if the sender ends with ':matrix.parity.io' and the command has a
\* third token; every other sender gets the configured amount, third token
\* or not.
C4_OverrideOnlyForTrusted ==
    ( /\ Dispatched
      /\ requests # <<>>
      /\ requests[1].path = "/bot-endpoint" )
    => LET amount == requests[1].body[1].amount
           sender == step.event.sender
           trusted == sender[Len(sender)] = ":matrix.parity.io"
           third == Len(Tokens) >= 3 /\ Tokens[3] # <<>>
       IN  /\ amount # defaultDripAmount => trusted /\ third
           /\ ~trusted => amount = defaultDripAmount

\* A sender of another domain gave a third token and the configured amount
\* was requested.
C4_Witness ==
    /\ Dispatched
    /\ step.event.sender = Mallory
    /\ step.event.body = <<"!drip", " ", "5Valid", " ", "2">>
    /\ requests # <<>>
    /\ requests[1].body[1].amount = defaultDripAmount

(***************************************************************************)
(* C5                                                                      *)
(***************************************************************************)

\* C5: when POST /bot-endpoint answers with an empty or absent hash, no
\* confirmation is sent: the reply is the backend's error text if that is
\* non-empty, the generic text otherwise.  A confirmation is sent only for
\* an answer with a non-empty hash.
C5_NoHashNoConfirmation ==
    ( Settled /\ step.call.request.path = "/bot-endpoint" )
    => /\ Len(sent) = 1
       /\ IsConfirmation(sent[1].body)
            => step.response.kind = "fulfilled" /\ HasHash(step.response)
       /\ ( step.response.kind = "fulfilled" /\ ~HasHash(step.response) )
            => sent[1].body =
                 IF step.response.error \notin {Undefined, <<>>}
                 THEN step.response.error
                 ELSE <<"An unexpected error occured, please check the server logs">>

\* The backend answered {hash: ""} with no error and the generic text went out.
C5_Witness ==
    /\ Settled
    /\ step.response.kind = "fulfilled"
    /\ step.response.hash = <<>>
    /\ step.response.error = Undefined
    /\ Len(sent) = 1
    /\ sent[1].body = DripFallbackText

(***************************************************************************)
(* C6                                                                      *)
(***************************************************************************)

\* C6 as stated: every backend communication error, of the !balance call
\* and of the !drip call alike, is reported to the room with a generic text
\* that does not depend on the error.
C6_AsStated ==
    ( Settled /\ step.response.kind = "rejected" )
    => /\ Len(sent) = 1
       /\ sent[1].body \in
            { <<"An error occured, please check the server logs.">>,
              <<"An unexpected error occured, please check the server logs">> }

\* C6 amended: a communication error of the !balance call is reported with
\* the generic text, whatever the error; one of the !drip call is reported
\* with the error's own message, and with the generic text only when that
\* message is empty.  Both are logged as errors.
C6_GenericForBalanceOnly ==
    ( Settled /\ step.response.kind = "rejected" )
    => /\ Len(sent) = 1
       /\ sent[1].roomId = step.call.roomId
       /\ logged # <<>> /\ logged[1].level = "error"
       /\ step.call.request.path = "/balance"
            => sent[1].body = <<"An error occured, please check the server logs.">>
       /\ step.call.request.path = "/bot-endpoint"
            => sent[1].body =
                 IF step.response.message \notin {Undefined, <<>>}
                 THEN step.response.message
                 ELSE <<"An unexpected error occured, please check the server logs">>

\* The !drip call timed out and the room was sent the error's message.
C6_Witness ==
    /\ Settled
    /\ step.call.request.path = "/bot-endpoint"
    /\ step.response.kind = "rejected"
    /\ step.response.message = <<"timeout of 10000ms exceeded">>
    /\ Len(sent) = 1
    /\ sent[1].body = <<"timeout of 10000ms exceeded">>

(***************************************************************************)
(* C7                                                                      *)
(***************************************************************************)

\* The last event is an accepted !balance, or an accepted !drip whose
\* address decodes.
CallsBackend ==
    /\ Dispatched /\ Accepted /\ step.event.body # Undefined
    /\ \/ Tokens[1] = <<"!balance">>
       \/ /\ Tokens[1] = <<"!drip">>
          /\ Len(Tokens) >= 2
          /\ Split(Trim(Tokens[2]), ":")[1] \in ValidAddresses

\* C7: an accepted !balance, and an accepted !drip with a valid address,
\* issues exactly one backend call and no chat message yet; when the call
\* settles, with success or failure, its continuation sends exactly one chat
\* message to the room of the event and issues no further call (no retry);
\* a failed chat send is logged and the message is not sent again; after a
\* backend failure the handler still takes the next event.
C7_OneCallOneReplyNoRetry ==
    /\ CallsBackend
         => /\ Len(requests) = 1
            /\ Cardinality({c \in pending : c.ev = nEvents}) = 1
            /\ sent = <<>>
    /\ Settled
         => /\ requests = <<>>
            /\ Len(sent) = 1
            /\ sent[1].roomId = step.call.roomId
            /\ \A c \in pending : c.ev # step.call.ev
            /\ ~thrown
    /\ \A k \in 1..nEvents : Cardinality({c \in pending : c.ev = k}) <= 1
    /\ Len(sent) <= 1
    /\ \A i \in 1..Len(sent) :
         sent[i].failed
           => \E j \in 1..Len(logged) :
                logged[j] = [level |-> "error", what |-> "sendEvent"]
    /\ ( Settled /\ step.response.kind = "rejected" /\ nEvents < MaxEvents )
         => ENABLED Timeline

\* A backend call failed, its one reply could not be sent either, and the
\* failure was logged.
C7_Witness ==
    /\ Settled
    /\ step.response.kind = "rejected"
    /\ Len(sent) = 1
    /\ sent[1].failed
    /\ requests = <<>>
    /\ Len(logged) = 2

(***************************************************************************)
(* C8                                                                      *)
(***************************************************************************)

\* C8: a !drip of an accepted sender with nothing, or an empty token, after
\* '!drip' sends no chat message and issues no backend call; it logs a
\* warning (after the debug line every accepted event logs).
C8_MissingAddressIsSilent ==
    ( /\ Dispatched /\ Accepted /\ IsDripCommand
      /\ Len(Tokens) < 2 \/ Tokens[2] = <<>> )
    => /\ sent = <<>>
       /\ NoBackendCall
       /\ ~thrown
       /\ logged = << [level |-> "debug", what |-> "Processing request"],
                      [level |-> "warn", what |-> "Address not provided"] >>

\* An accepted sender wrote '!drip', two spaces and an address: the second
\* token is empty.
C8_Witness ==
    /\ Dispatched
    /\ Accepted
    /\ step.event.body = <<"!drip", " ", " ", "5Valid">>
    /\ Len(logged) = 2

(***************************************************************************)
(* C9                                                                      *)
(***************************************************************************)

\* C9: whatever the order of events and completions, a call in flight keeps
\* the room, the sender and the amount of the event that issued it; the
\* reply to a settled call goes to that room; a confirmation names the
\* sender and the amount of the POST body of that call; and the amount of a
\* call differs from the configured one only through its own event's
\* override, whatever amounts other calls carry.
C9_RepliesBelongToTheirEvent ==
    /\ Dispatched
         => \A c \in pending :
              c.ev = nEvents
                => /\ c.roomId = step.event.roomId
                   /\ c.sender = step.event.sender
                   /\ c.request = requests[1]
    /\ \A c \in pending :
         c.request.path = "/bot-endpoint"
           => /\ c.request.body[1].sender = c.sender
              /\ c.request.body[1].amount = c.dripAmount
              /\ c.dripAmount # defaultDripAmount
                   => c.sender[Len(c.sender)] = ":matrix.parity.io"
    /\ Settled => \A i \in 1..Len(sent) : sent[i].roomId = step.call.roomId
    /\ ( /\ Settled
         /\ step.call.request.path = "/bot-endpoint"
         /\ step.response.kind = "fulfilled"
         /\ HasHash(step.response) )
         => sent[1].body =
              <<"Sent ">> \o step.call.request.body[1].sender
              \o <<" ", step.call.request.body[1].amount, " ", "UNIT",
                   "s. Extrinsic hash: ">>
              \o step.response.hash

\* The later of two calls of the same trusted sender settles first: it is
\* confirmed with the configured amount in its own room while the earlier
\* one, with an override and in another room, is still in flight.
C9_Witness ==
    /\ Settled
    /\ step.call.sender = Bob
    /\ step.call.dripAmount = defaultDripAmount
    /\ Len(sent) = 1
    /\ IsConfirmation(sent[1].body)
    /\ \E c \in pending :
         /\ c.ev < step.call.ev
         /\ c.sender = Bob
         /\ c.dripAmount = "2"
         /\ c.roomId # step.call.roomId

(***************************************************************************)
(* C10                                                                     *)
(***************************************************************************)

\* C10: an event that is not an 'm.room.message', has no sender, or comes
\* from the bot itself causes no backend call and no chat message; so a
\* reply of the bot delivered back to it triggers nothing, even when its
\* text starts with '!'.
C10_NotForUsIsSilent ==
    ( /\ Dispatched
      /\ \/ step.event.type # "m.room.message"
         \/ step.event.sender = Undefined
         \/ step.event.sender = botUserId )
    => sent = <<>> /\ NoBackendCall /\ logged = <<>> /\ ~thrown

\* A reply that starts with '!' (a backend error text) came back to the bot.
C10_Witness ==
    /\ step.kind = "echo"
    /\ step.event.sender = botUserId
    /\ Head(step.event.body) \in BangAtoms
    /\ sent = <<>>

=============================================================================
